---------------------------- MODULE Spec2Model ----------------------------
(***************************************************************************)
(* Profit-curve computation of Uber_Rider_Churn_cost_benefit.ipynb:        *)
(* standard_confusion_matrix, profit_curve and find_best_threshold, and    *)
(* the notebook cells that call them.                                      *)
(*                                                                         *)
(* Numbers.  Probabilities are fixed-point: the integer s stands for the   *)
(* score s / Tenths.  A profit is the float (cm/num*costbenefit).sum();    *)
(* it is kept as the exact fraction n/d with d = num > 0, and compared by  *)
(* cross-multiplication (rounding of the float operations is not           *)
(* modelled).  A numpy bool label is the integer it compares and hashes    *)
(* equal to: False is 0, True is 1.                                        *)
(***************************************************************************)
EXTENDS Integers, Sequences, FiniteSets

\* Longest probability / label vector drawn for a profit_curve call.
MaxLen == 4
\* Longest pair of label vectors drawn for a direct standard_confusion_matrix call.
MaxVec == 4
\* Longest (thresholds, profits) pair drawn for a direct find_best_threshold call.
MaxCurve == 3
\* Fixed-point scale of the scores: the integer Tenths stands for 1.0.
Tenths == 10

\* Longest label vector drawn for a perfect classifier (probabilities = labels).
MaxPerfect == 5

\* The scores drawn for a profit_curve call: 0.1, 0.4, 0.6 and 0.9.
Scores == {1, 4, 6, 9}
\* The profit values drawn for a direct find_best_threshold call:
\* -1, -1/2, 0, 1/2 and 1, the values 0 and 1 in two spellings each.
ProfitValues == { [n |-> a, d |-> b] : a \in -1..1, b \in 1..2 }
\* Binary class labels.
Labels == {0, 1}

\* The cost-benefit matrix the notebook defines (gain 10, lose 10, lose 5, 0).
CostBenefitNotebook == << <<10, -10>>, <<-5, 0>> >>
\* Matrices a caller passes as profit_curve's first argument.
CostBenefitArgs == { CostBenefitNotebook,
                     << <<0, 0>>, <<0, 0>> >>,
                     << <<1, 0>>, <<0, 1>> >> }

VARIABLES
    costbenefit,          \* the notebook's global cost-benefit matrix
    cost_benefit_matrix,  \* profit_curve's first argument
    probabilities,        \* profit_curve's second argument
    y_true,               \* the label vector (argument of both functions)
    threshold,            \* profit_curve's local: the sorted thresholds
    profit,               \* profit_curve's local: the profits appended so far
    y_pred,               \* the predicted labels handed to standard_confusion_matrix
    cm,                   \* the outcome of the last standard_confusion_matrix call
    num,                  \* the normalizer of the last loop iteration
    thresholds,           \* the notebook's thresholds (find_best_threshold's argument)
    profits,              \* the notebook's profits (find_best_threshold's argument)
    max_index,            \* find_best_threshold's local (0-based)
    max_threshold,        \* find_best_threshold's first result
    max_profit,           \* find_best_threshold's second result
    y_test_pred,          \* the final prediction made with max_threshold
    cms,                  \* history: the confusion matrices of the sweep so far
    previous,             \* the (thresholds, profits) of an earlier identical call
    calls,                \* how many times the profit-curve cell has been run
    pc,                   \* where the notebook is
    err                   \* the exception that ended the cell, "none" if none

vars == << costbenefit, cost_benefit_matrix, probabilities, y_true, threshold,
           profit, y_pred, cm, num, thresholds, profits, max_index,
           max_threshold, max_profit, y_test_pred, cms, previous, calls,
           pc, err >>

---------------------------------------------------------------------------
\* Helpers on sequences and fractions.

Range(s) == { s[i] : i \in 1..Len(s) }

SetMax(S) == CHOOSE m \in S : \A x \in S : x <= m

SetMin(S) == CHOOSE m \in S : \A x \in S : m <= x

Count(s, v) == Cardinality({ i \in 1..Len(s) : s[i] = v })

RemoveAt(s, i) == [ j \in 1..(Len(s) - 1) |-> IF j < i THEN s[j] ELSE s[j + 1] ]

\* A float profit value as an exact fraction n/d, d > 0.
Frac(n, d) == [n |-> n, d |-> d]

FracLess(a, b) == a.n * b.d < b.n * a.d

FracEq(a, b) == a.n * b.d = b.n * a.d

Zero == Frac(0, 1)

\* Outcome of a call: a value, or a raised exception.
Returned(v) == [raised |-> FALSE, value |-> v]

Raised == [raised |-> TRUE, value |-> << >>]

---------------------------------------------------------------------------
\* sklearn.metrics.confusion_matrix(y_true, y_pred) with default labels:
\* the labels are the sorted distinct values of both vectors, and cell
\* [i][j] counts the samples of true label i predicted as label j.  Vectors
\* of different lengths raise.

RECURSIVE SortedAsc(_)
SortedAsc(S) ==
    IF S = {} THEN << >>
    ELSE LET m == SetMin(S) IN << m >> \o SortedAsc(S \ {m})

unique_labels(yt, yp) == SortedAsc(Range(yt) \cup Range(yp))

confusion_matrix(yt, yp) ==
    IF Len(yt) # Len(yp) THEN Raised
    ELSE LET lab == unique_labels(yt, yp)
             L == Len(lab)
         IN Returned([ i \in 1..L |-> [ j \in 1..L |->
                Cardinality({ n \in 1..Len(yt) :
                                yt[n] = lab[i] /\ yp[n] = lab[j] }) ] ])

\* standard_confusion_matrix with fn written where tn belongs in the result.
standard_confusion_matrix_fn_twice(yt, yp) ==
    LET c == confusion_matrix(yt, yp) IN
    IF c.raised THEN Raised
    ELSE IF Len(c.value) # 2 THEN Raised
    ELSE LET fp == c.value[1][2]
             fn == c.value[2][1]
             tp == c.value[2][2]
         IN Returned(<< <<tp, fp>>, <<fn, fn>> >>)

\* standard_confusion_matrix: unpack [[tn, fp], [fn, tp]] from sklearn's
\* matrix (a matrix that is not 2x2 cannot be unpacked: ValueError) and
\* return [[tp, fp], [fn, tn]].
standard_confusion_matrix(yt, yp) ==
    LET c == confusion_matrix(yt, yp) IN
    IF c.raised THEN Raised
    ELSE IF Len(c.value) # 2 THEN Raised
    ELSE LET tn == c.value[1][1]
             fp == c.value[1][2]
             fn == c.value[2][1]
             tp == c.value[2][2]
         IN Returned(<< <<tp, fp>>, <<fn, tn>> >>)

\* sorted(probabilities): the sort with "reverse = True" left out.
sorted_forward(s) ==
    LET asc[r \in Seq(Int)] ==
            IF r = << >> THEN << >>
            ELSE LET m == SetMin(Range(r))
                     i == CHOOSE j \in 1..Len(r) : r[j] = m
                 IN << m >> \o asc[RemoveAt(r, i)]
    IN asc[s]

\* sorted(probabilities, reverse = True)
RECURSIVE sorted_reverse(_)
sorted_reverse(s) ==
    IF s = << >> THEN << >>
    ELSE LET m == SetMax(Range(s))
             i == CHOOSE j \in 1..Len(s) :
                     s[j] = m /\ \A h \in 1..(j - 1) : s[h] # m
         IN << m >> \o sorted_reverse(RemoveAt(s, i))

\* probabilities >= t: the comparison of the sweep written with >=.
predicted_labels_ge(p, t) == [ i \in 1..Len(p) |-> IF p[i] >= t THEN 1 ELSE 0 ]

\* probabilities > t, elementwise (True is 1, False is 0).
predicted_labels(p, t) == [ i \in 1..Len(p) |-> IF p[i] > t THEN 1 ELSE 0 ]

\* cm.sum().sum()
matrix_sum(m) == m[1][1] + m[1][2] + m[2][1] + m[2][2]

\* (cm/num*costbenefit).flatten().sum(): the loop body reads the global
\* costbenefit, not the parameter cost_benefit_matrix.
expected_profit(m, n, cb_param, cb_global) ==
    Frac(m[1][1] * cb_global[1][1] + m[1][2] * cb_global[1][2]
           + m[2][1] * cb_global[2][1] + m[2][2] * cb_global[2][2], n)

\* An argmax that keeps the last largest entry (a scan comparing with >=).
argmax_last(s) ==
    CHOOSE i \in 0..(Len(s) - 1) :
        /\ \A j \in 1..Len(s) : ~ FracLess(s[i + 1], s[j])
        /\ \A j \in (i + 2)..Len(s) : FracLess(s[j], s[i + 1])

\* np.argmax(profits): the first index (0-based) of a largest entry.
argmax(s) ==
    CHOOSE i \in 0..(Len(s) - 1) :
        /\ \A j \in 1..Len(s) : ~ FracLess(s[i + 1], s[j])
        /\ \A j \in 1..i : FracLess(s[j], s[i + 1])

\* np.max(profits)
seq_max(s) ==
    s[CHOOSE i \in 1..Len(s) : \A j \in 1..Len(s) : ~ FracLess(s[i], s[j])]

---------------------------------------------------------------------------
\* The notebook before the profit-curve cell runs: the global costbenefit is
\* set, the probabilities and labels are index-aligned vectors of one length.

Blank ==
    /\ costbenefit = CostBenefitNotebook
    /\ threshold = << >>
    /\ profit = << >>
    /\ cm = Returned(<< >>)
    /\ num = 0
    /\ max_index = 0
    /\ max_threshold = 0
    /\ max_profit = Zero
    /\ y_test_pred = << >>
    /\ cms = << >>
    /\ previous = << << >>, << >> >>
    /\ calls = 1
    /\ err = "none"

Init ==
    /\ Blank
    /\ cost_benefit_matrix \in CostBenefitArgs
    /\ \E n \in 0..MaxLen :
          /\ probabilities \in [1..n -> Scores]
          /\ y_true \in [1..n -> Labels]
    /\ y_pred = << >>
    /\ thresholds = << >>
    /\ profits = << >>
    /\ pc = "call"

\* profit_curve, entry: threshold = sorted(...); profit = [].
ProfitCurveEnter ==
    /\ pc = "call"
    /\ threshold' = sorted_reverse(probabilities)
    /\ profit' = << >>
    /\ cms' = << >>
    /\ pc' = "loop"
    /\ UNCHANGED << costbenefit, cost_benefit_matrix, probabilities, y_true,
                    y_test_pred, previous, calls,
                    y_pred, cm, num, thresholds, profits, max_index,
                    max_threshold, max_profit, err >>

\* profit_curve, one iteration of "for t in threshold": the next threshold
\* is the one at position Len(profit) + 1.
ProfitCurveIter ==
    /\ pc = "loop"
    /\ Len(profit) < Len(threshold)
    /\ LET t == threshold[Len(profit) + 1]
           yp == predicted_labels(probabilities, t)
           c == standard_confusion_matrix(y_true, yp)
       IN /\ y_pred' = yp
          /\ cm' = c
          /\ \/ /\ c.raised
                /\ pc' = "raised"
                /\ err' = "unpack"
                /\ UNCHANGED << num, profit, cms >>
             \/ /\ ~ c.raised
                /\ num' = matrix_sum(c.value)
                /\ profit' = Append(profit,
                       expected_profit(c.value, matrix_sum(c.value),
                                       cost_benefit_matrix, costbenefit))
                /\ cms' = Append(cms, c.value)
                /\ UNCHANGED << pc, err >>
    /\ UNCHANGED << costbenefit, cost_benefit_matrix, probabilities, y_true,
                    y_test_pred, previous, calls,
                    threshold, thresholds, profits, max_index, max_threshold,
                    max_profit >>

\* profit_curve, "return threshold, profit", assigned by the calling cell
\* to thresholds, profits.
ProfitCurveReturn ==
    /\ pc = "loop"
    /\ Len(profit) = Len(threshold)
    /\ thresholds' = threshold
    /\ profits' = profit
    /\ pc' = "returned"
    /\ UNCHANGED << costbenefit, cost_benefit_matrix, probabilities, y_true,
                    y_test_pred, previous, calls,
                    threshold, profit, y_pred, cm, num, max_index,
                    max_threshold, max_profit, cms, err >>

\* find_best_threshold(thresholds, profits); np.argmax of an empty sequence
\* raises ValueError.
find_best_threshold ==
    /\ pc = "returned"
    /\ \/ /\ Len(profits) = 0
          /\ pc' = "raised"
          /\ err' = "argmax"
          /\ UNCHANGED << max_index, max_threshold, max_profit >>
       \/ /\ Len(profits) > 0
          /\ max_index' = argmax(profits)
          /\ max_threshold' = thresholds[argmax(profits) + 1]
          /\ max_profit' = seq_max(profits)
          /\ pc' = "selected"
          /\ UNCHANGED err
    /\ UNCHANGED << costbenefit, cost_benefit_matrix, probabilities, y_true,
                    y_test_pred, previous, calls,
                    threshold, profit, y_pred, cm, num, thresholds, profits,
                    cms >>

\* probabilities >= max_threshold, elementwise (True is 1, False is 0).
final_labels(p, t) == [ i \in 1..Len(p) |-> IF p[i] >= t THEN 1 ELSE 0 ]

\* The cell "Make predictions with chosen threshold":
\* y_test_pred = probabilities >= max_threshold.
FinalPrediction ==
    /\ pc = "selected"
    /\ y_test_pred' = final_labels(probabilities, max_threshold)
    /\ pc' = "predicted"
    /\ UNCHANGED << costbenefit, cost_benefit_matrix, probabilities, y_true,
                    threshold, profit, y_pred, cm, num, thresholds, profits,
                    max_index, max_threshold, max_profit, cms, previous,
                    calls, err >>

Next ==
    \/ ProfitCurveEnter
    \/ ProfitCurveIter
    \/ ProfitCurveReturn
    \/ find_best_threshold
    \/ FinalPrediction

Spec == Init /\ [][Next]_vars

---------------------------------------------------------------------------
\* The same notebook run on a perfect classifier: the identity matrix is
\* passed and every probability is its label, 0.0 or 1.0.

InitPerfect ==
    /\ Blank
    /\ cost_benefit_matrix = << <<1, 0>>, <<0, 1>> >>
    /\ \E n \in 0..MaxPerfect : y_true \in [1..n -> Labels]
    /\ probabilities = [ i \in 1..Len(y_true) |-> Tenths * y_true[i] ]
    /\ y_pred = << >>
    /\ thresholds = << >>
    /\ profits = << >>
    /\ pc = "call"

SpecPerfect == InitPerfect /\ [][Next]_vars

---------------------------------------------------------------------------
\* standard_confusion_matrix called on its own with two binary vectors of
\* one length N >= 1.

InitSCM ==
    /\ Blank
    /\ cost_benefit_matrix = CostBenefitNotebook
    /\ probabilities = << >>
    /\ \E n \in 1..MaxVec :
          /\ y_true \in [1..n -> Labels]
          /\ y_pred \in [1..n -> Labels]
    /\ thresholds = << >>
    /\ profits = << >>
    /\ pc = "scm_call"

CallStandardConfusionMatrix ==
    /\ pc = "scm_call"
    /\ cm' = standard_confusion_matrix(y_true, y_pred)
    /\ \/ /\ cm'.raised
          /\ pc' = "raised"
          /\ err' = "unpack"
       \/ /\ ~ cm'.raised
          /\ pc' = "scm_returned"
          /\ UNCHANGED err
    /\ UNCHANGED << costbenefit, cost_benefit_matrix, probabilities, y_true,
                    y_test_pred, previous, calls,
                    threshold, profit, y_pred, num, thresholds, profits,
                    max_index, max_threshold, max_profit, cms >>

NextSCM == CallStandardConfusionMatrix

SpecSCM == InitSCM /\ [][NextSCM]_vars

---------------------------------------------------------------------------
\* find_best_threshold called on its own with a curve as profit_curve
\* returns it: thresholds in non-increasing order, profits of the same
\* length.

NonIncreasing(s) == \A i \in 1..(Len(s) - 1) : s[i] >= s[i + 1]

InitFBT ==
    /\ Blank
    /\ cost_benefit_matrix = CostBenefitNotebook
    /\ probabilities = << >>
    /\ y_true = << >>
    /\ y_pred = << >>
    /\ \E n \in 0..MaxCurve :
          /\ thresholds \in { s \in [1..n -> Scores] : NonIncreasing(s) }
          /\ profits \in [1..n -> ProfitValues]
    /\ pc = "returned"

NextFBT == find_best_threshold

SpecFBT == InitFBT /\ [][NextFBT]_vars

---------------------------------------------------------------------------
\* The profit-curve cell run on invalid input: P and Y of different lengths,
\* or a Y holding a value that is not a binary label.

\* Longest vector drawn for an invalid call.
MaxInvalid == 3

\* Label values drawn for an invalid call: the binary labels and the value 2.
LabelValues == Labels \cup {2}

InitInvalid ==
    /\ Blank
    /\ cost_benefit_matrix = CostBenefitNotebook
    /\ \E n, m \in 0..MaxInvalid :
          /\ probabilities \in [1..n -> Scores]
          /\ y_true \in [1..m -> LabelValues]
    /\ Len(probabilities) # Len(y_true) \/ ~ (Range(y_true) \subseteq Labels)
    /\ y_pred = << >>
    /\ thresholds = << >>
    /\ profits = << >>
    /\ pc = "call"

SpecInvalid == InitInvalid /\ [][Next]_vars

---------------------------------------------------------------------------
\* The profit-curve cell run twice with identical arguments; between the two
\* runs the cell defining the global costbenefit may be run with another
\* business input.

\* Longest vector drawn for the repeated call.
MaxTwice == 3

InitTwice ==
    /\ Blank
    /\ cost_benefit_matrix \in CostBenefitArgs
    /\ \E n \in 0..MaxTwice :
          /\ probabilities \in [1..n -> Scores]
          /\ y_true \in [1..n -> Labels]
    /\ y_pred = << >>
    /\ thresholds = << >>
    /\ profits = << >>
    /\ pc = "call"

\* costbenefit = np.array(...) run again with another matrix.
RebindCostBenefit ==
    /\ pc = "returned"
    /\ calls = 1
    /\ costbenefit' \in CostBenefitArgs \ {costbenefit}
    /\ UNCHANGED << cost_benefit_matrix, probabilities, y_true, threshold,
                    profit, y_pred, cm, num, thresholds, profits, max_index,
                    max_threshold, max_profit, y_test_pred, cms, previous,
                    calls, pc, err >>

\* thresholds, profits = profit_curve(...) run a second time with the same
\* arguments; the first result is remembered in previous.
CallAgain ==
    /\ pc = "returned"
    /\ calls = 1
    /\ previous' = << thresholds, profits >>
    /\ calls' = 2
    /\ pc' = "call"
    /\ UNCHANGED << costbenefit, cost_benefit_matrix, probabilities, y_true,
                    threshold, profit, y_pred, cm, num, thresholds, profits,
                    max_index, max_threshold, max_profit, y_test_pred, cms,
                    err >>

NextTwice ==
    \/ ProfitCurveEnter
    \/ ProfitCurveIter
    \/ ProfitCurveReturn
    \/ RebindCostBenefit
    \/ CallAgain

SpecTwice == InitTwice /\ [][NextTwice]_vars

---------------------------------------------------------------------------
\* The counting rules the claims are stated with.

N == Len(y_true)

\* Number of observations predicted as predv (P[i] > t is 1) of actual class actv.
Cell(p, y, t, predv, actv) ==
    Cardinality({ i \in 1..Len(y) :
                    (IF p[i] > t THEN 1 ELSE 0) = predv /\ y[i] = actv })

\* Number of positions where the predicted label is predv and the actual actv.
PairCount(yp, yt, predv, actv) ==
    Cardinality({ i \in 1..Len(yt) : yp[i] = predv /\ yt[i] = actv })

\* The profit the counting rules give at threshold t with matrix cb.
CountedProfit(cb, p, y, t) ==
    Frac(Cell(p, y, t, 1, 1) * cb[1][1] + Cell(p, y, t, 1, 0) * cb[1][2]
           + Cell(p, y, t, 0, 1) * cb[2][1] + Cell(p, y, t, 0, 0) * cb[2][2],
         Len(y))

IsPermutation(a, b) ==
    /\ Len(a) = Len(b)
    /\ \A v \in Range(a) \cup Range(b) : Count(a, v) = Count(b, v)

\* profit_curve has returned its two sequences to the calling cell.
CurveReturned == pc \in {"returned", "selected", "predicted"} \/ err = "argmax"

\* The cell that calls profit_curve and find_best_threshold has ended.
Finished == pc \in {"selected", "raised"}

\* The indices (1-based) at which profits attains its maximum.
Maximizers == { i \in 1..Len(profits) :
                  \A j \in 1..Len(profits) : ~ FracLess(profits[i], profits[j]) }

---------------------------------------------------------------------------
\* C1: every profit profit_curve has appended equals
\* (TP*CB[0][0] + FP*CB[0][1] + FN*CB[1][0] + TN*CB[1][1]) / N for the matrix
\* CB passed as its first argument, the counts taken with P[i] > thresholds[k].
ProfitFromArgument ==
    \A k \in 1..Len(profit) :
        FracEq(profit[k],
               CountedProfit(cost_benefit_matrix, probabilities, y_true,
                             threshold[k]))

\* What the code computes instead: the same sum with the global costbenefit.
ProfitFromGlobal ==
    \A k \in 1..Len(profit) :
        FracEq(profit[k],
               CountedProfit(costbenefit, probabilities, y_true, threshold[k]))

\* C2: for equal-length binary vectors of length N >= 1, also when both hold
\* one and the same class, standard_confusion_matrix returns
\* [[TP, FP], [FN, TN]] counted from predicted and actual labels.
ConfusionMatrixReturned ==
    pc # "scm_call" =>
        cm = Returned(<< << PairCount(y_pred, y_true, 1, 1),
                            PairCount(y_pred, y_true, 1, 0) >>,
                         << PairCount(y_pred, y_true, 0, 1),
                            PairCount(y_pred, y_true, 0, 0) >> >>)

\* What the code does: the counts whenever both classes occur in the two
\* vectors together, an exception when they hold a single class.
ConfusionMatrixTwoClasses ==
    pc # "scm_call" =>
        IF Range(y_true) \cup Range(y_pred) = Labels
        THEN ConfusionMatrixReturned
        ELSE cm.raised /\ pc = "raised"

\* C3: the thresholds profit_curve returns are in non-increasing order and
\* are a permutation of P as a multiset, duplicates retained.
ThresholdsSortedPermutation ==
    CurveReturned =>
        /\ NonIncreasing(thresholds)
        /\ IsPermutation(thresholds, probabilities)

\* C3 witness: a returned curve for a P that has a repeated value and is not
\* already in non-increasing order.
ThresholdsSortedPermutationWitness ==
    /\ pc = "returned"
    /\ Len(probabilities) >= 3
    /\ ~ NonIncreasing(probabilities)
    /\ \E v \in Range(probabilities) : Count(probabilities, v) >= 2

\* C4: for every valid (CB, P, Y) profit_curve returns, with
\* len(thresholds) = len(profits) = len(P); no threshold aborts the sweep.
CurveCompleteForValidInput ==
    /\ ~ (pc = "raised" /\ err = "unpack")
    /\ CurveReturned => Len(thresholds) = N /\ Len(profits) = N

\* What the code does: the lengths are N whenever the call returns.
CurveLengthsWhenReturned ==
    CurveReturned =>
        Len(thresholds) = Len(probabilities) /\ Len(profits) = Len(probabilities)

\* C5: find_best_threshold returns (thresholds[i], profits[i]) for the smallest
\* index i at which profits is maximal: the highest threshold among the
\* maximizers, and the maximum of profits.
BestThresholdIsFirstMaximizer ==
    pc = "selected" =>
        LET i == SetMin(Maximizers) IN
        /\ max_index = i - 1
        /\ max_threshold = thresholds[i]
        /\ FracEq(max_profit, profits[i])
        /\ \A j \in Maximizers : thresholds[j] <= max_threshold
        /\ \A j \in 1..Len(profits) : ~ FracLess(max_profit, profits[j])

\* C5 witness: a selection among several maximizers of different thresholds,
\* the first of them not at the head of the curve.
BestThresholdIsFirstMaximizerWitness ==
    /\ pc = "selected"
    /\ max_index >= 1
    /\ \E i, j \in Maximizers : thresholds[i] > thresholds[j]

\* C6: the four cells of every confusion matrix the sweep computes sum to N,
\* and so does the normalizer num.
ConfusionMatrixSumsToN ==
    (Len(profit) >= 1 /\ ~ cm.raised) =>
        /\ matrix_sum(cm.value) = N
        /\ num = N
        /\ \A i, j \in 1..2 : cm.value[i][j] >= 0

\* C6 witness: a second or later threshold of the sweep whose confusion matrix
\* has all four cells occupied.
ConfusionMatrixSumsToNWitness ==
    /\ pc = "loop"
    /\ Len(profit) >= 2
    /\ ~ cm.raised
    /\ \A i, j \in 1..2 : cm.value[i][j] >= 1

\* Every Y = 1 score is above every Y = 0 score, and some label is 0.
PerfectlySeparated ==
    /\ \E i \in 1..N : y_true[i] = 0
    /\ \A i, j \in 1..N :
          (y_true[i] = 1 /\ y_true[j] = 0) => probabilities[i] > probabilities[j]

\* What C7 says the pipeline returns.
SeparationResult ==
    /\ pc = "selected"
    /\ max_threshold =
          SetMax({ probabilities[i] : i \in { j \in 1..N : y_true[j] = 0 } })
    /\ FracEq(max_profit, Frac(10 * Count(y_true, 1), N))

\* C7: with CB = [[10,-10],[-5,0]] and perfectly separating scores (at least
\* one Y = 0), find_best_threshold on profit_curve's output returns the highest
\* score of a Y = 0 observation and the profit 10 * (number of Y = 1) / N.
PerfectSeparationBest ==
    (Finished /\ cost_benefit_matrix = CostBenefitNotebook /\ PerfectlySeparated)
        => SeparationResult

\* What the code does: that result whenever a Y = 1 is present too, and for
\* Y = [1,1,0,0], P = [0.9,0.6,0.4,0.1] the threshold 0.4 with profit 5.0.
PerfectSeparationBothClasses ==
    /\ (Finished /\ PerfectlySeparated /\ \E i \in 1..N : y_true[i] = 1)
          => SeparationResult
    /\ (Finished /\ y_true = <<1, 1, 0, 0>> /\ probabilities = <<9, 6, 4, 1>>)
          => (pc = "selected" /\ max_threshold = 4
                /\ FracEq(max_profit, Frac(5, 1)))

\* C8: with CB = [[1,0],[0,1]] passed and P[i] = Y[i] (0.0 or 1.0), N > 0, the
\* best profit over the curve is 1.0, at a threshold t with 0 <= t < 1.
PerfectClassifierBest ==
    (Finished /\ N > 0) =>
        /\ pc = "selected"
        /\ FracEq(max_profit, Frac(1, 1))
        /\ 0 <= max_threshold /\ max_threshold < Tenths

\* C9: if CB = [[0,0],[0,0]] is passed, every entry of profits is 0.0.
ZeroMatrixZeroProfit ==
    cost_benefit_matrix = << <<0, 0>>, <<0, 0>> >> =>
        \A k \in 1..Len(profit) : FracEq(profit[k], Zero)

\* C10: a zero-length input never yields a result: profit_curve on empty P and
\* Y does not return a curve, and find_best_threshold on empty sequences does
\* not return a threshold.
EmptyInputRaises ==
    /\ Len(probabilities) = 0 => ~ CurveReturned
    /\ Len(thresholds) = 0 => pc # "selected"

\* What the code does on empty P and Y: profit_curve returns two empty
\* sequences, and find_best_threshold raises on them.
EmptyInputReturnsEmptyCurve ==
    (Len(probabilities) = 0 /\ Finished) =>
        /\ thresholds = << >> /\ profits = << >>
        /\ pc = "raised" /\ err = "argmax"

---------------------------------------------------------------------------
\* C11: when P and Y differ in length, or Y holds a value outside {0,1}, the
\* call fails at the first threshold: no confusion matrix is returned, no
\* profit entry is appended and no curve is returned.
InvalidInputFails ==
    /\ cms = << >>
    /\ profit = << >>
    /\ ~ CurveReturned

\* What the code does: a P longer or shorter than Y, P not empty, raises at
\* the first threshold; an empty P returns the empty curve; a Y with exactly
\* one value other than 0 has that value counted as the positive class.
LengthMismatchRaises ==
    (Len(probabilities) # Len(y_true) /\ Len(probabilities) > 0) =>
        InvalidInputFails

\* The profit of the label vector yp against yt with matrix cb.
ProfitOfLabels(cb, yp, yt) ==
    Frac(PairCount(yp, yt, 1, 1) * cb[1][1] + PairCount(yp, yt, 1, 0) * cb[1][2]
           + PairCount(yp, yt, 0, 1) * cb[2][1] + PairCount(yp, yt, 0, 0) * cb[2][2],
         Len(yt))

\* C12: the final classification made with max_threshold is the label vector
\* P[i] > max_threshold that profit_curve evaluated at that threshold, and its
\* profit is max_profit.
FinalPredictionMatchesCurve ==
    pc = "predicted" =>
        /\ y_test_pred = predicted_labels(probabilities, max_threshold)
        /\ FracEq(ProfitOfLabels(costbenefit, y_test_pred, y_true), max_profit)

\* What the code does: the final vector is P[i] >= max_threshold, which adds
\* the observations scored exactly max_threshold to the positives.
FinalPredictionAddsTies ==
    pc = "predicted" =>
        /\ \A i \in 1..N :
              y_test_pred[i] = (IF probabilities[i] >= max_threshold THEN 1 ELSE 0)
        /\ \E i \in 1..N :
              /\ probabilities[i] = max_threshold
              /\ y_test_pred[i] = 1
              /\ predicted_labels(probabilities, max_threshold)[i] = 0

\* C13: a second profit_curve call with identical (CB, P, Y) returns the
\* sequences the first call returned, whatever happened in between.
RepeatedCallSameResult ==
    (calls = 2 /\ pc = "returned") =>
        /\ thresholds = previous[1]
        /\ profits = previous[2]

\* What the code does: the results agree while the global costbenefit is the
\* one of the first call, and P and Y are never written.
RepeatedCallSameResultSameGlobal ==
    (calls = 2 /\ pc = "returned" /\ costbenefit = CostBenefitNotebook) =>
        /\ thresholds = previous[1]
        /\ profits = previous[2]

\* C14: at every curve entry whose threshold is the maximum of P (the first
\* entry among them) nothing is predicted positive: TP = FP = 0, FN is the
\* number of Y = 1 and TN the number of Y = 0.
MaxThresholdPredictsNone ==
    /\ Len(cms) >= 1 => threshold[1] = SetMax(Range(probabilities))
    /\ \A k \in 1..Len(cms) :
          threshold[k] = SetMax(Range(probabilities)) =>
              cms[k] = << <<0, 0>>, << Count(y_true, 1), Count(y_true, 0) >> >>
    /\ (pc = "loop" /\ Len(cms) >= 1
          /\ threshold[Len(cms)] = SetMax(Range(probabilities))) =>
              \A i \in 1..Len(y_pred) : y_pred[i] = 0

\* C14 witness: the second entry of a sweep, at a threshold that repeats the
\* maximum of P, with both classes in Y and a lower score present.
MaxThresholdPredictsNoneWitness ==
    /\ pc = "loop"
    /\ Len(cms) = 2
    /\ threshold[2] = SetMax(Range(probabilities))
    /\ Range(y_true) = Labels
    /\ \E i \in 1..N : probabilities[i] < threshold[2]

\* C15: for every real threshold t, also below the minimum of P, the label
\* vector P[i] > t is the one of some curve entry, and no threshold earns more
\* than the best entry of the curve.  (The scores are integers from 1 up, so
\* 0..Tenths holds a threshold of every interval the scores cut the line in.)
EveryThresholdOnCurve ==
    (CurveReturned /\ N > 0) =>
        \A t \in 0..Tenths :
            /\ \E k \in 1..Len(thresholds) :
                  predicted_labels(probabilities, t)
                      = predicted_labels(probabilities, thresholds[k])
            /\ \E k \in 1..Len(profits) :
                  ~ FracLess(profits[k],
                             CountedProfit(costbenefit, probabilities, y_true, t))

\* What the code does: every threshold at or above the minimum of P is on the
\* curve; the all-positive assignment of a threshold below it never is.
ThresholdsFromMinimumOnCurve ==
    (CurveReturned /\ N > 0) =>
        /\ \A t \in SetMin(Range(probabilities))..Tenths :
              \E k \in 1..Len(thresholds) :
                  predicted_labels(probabilities, t)
                      = predicted_labels(probabilities, thresholds[k])
        /\ \A k \in 1..Len(thresholds) :
              predicted_labels(probabilities, thresholds[k])
                  # predicted_labels(probabilities, 0)

\* Predicted positives TP + FP of a confusion matrix.
Positives(m) == m[1][1] + m[1][2]

\* C16: at index k (0-based) of the curve TP + FP is the number of values of P
\* above thresholds[k]; it is at most k, non-decreasing in k, below N, and
\* exactly k when the values of P are distinct; entries of equal thresholds
\* have equal confusion matrices and equal profits.
PredictedPositivesGrow ==
    \A k \in 1..Len(cms) :
        /\ Positives(cms[k])
              = Cardinality({ i \in 1..N : probabilities[i] > threshold[k] })
        /\ Positives(cms[k]) <= k - 1
        /\ Positives(cms[k]) < N
        /\ k > 1 => Positives(cms[k - 1]) <= Positives(cms[k])
        /\ Cardinality(Range(probabilities)) = N => Positives(cms[k]) = k - 1
        /\ \A j \in 1..Len(cms) :
              threshold[j] = threshold[k] =>
                  cms[j] = cms[k] /\ FracEq(profit[j], profit[k])

\* C16 witness: a completed sweep of four thresholds, two of them equal, whose
\* last entry predicts at least two positives.
PredictedPositivesGrowWitness ==
    /\ pc = "returned"
    /\ Len(cms) = 4
    /\ Positives(cms[4]) >= 2
    /\ \E j, k \in 1..4 : j < k /\ threshold[j] = threshold[k]

=============================================================================
